---- MODULE Spec2Model ----
(***************************************************************************)
(* Multi-source relational query core of bevy_ecs: the query plan          *)
(* (terms + relationship edges + main term) and its backtracking executor  *)
(* QueryPlan::execute / QueryPlan::resolve_term, modelled as a state       *)
(* machine with an explicit call stack.                                    *)
(*                                                                         *)
(* Term indices are 0-based as in the source; TLA+ sequences are 1-based,  *)
(* so term i lives at plan.terms[i + 1] and slot i at partial_match[i+1].  *)
(***************************************************************************)
EXTENDS Integers, Sequences, FiniteSets, TLC

(***************************************************************************)
(* Bounds of the model.                                                    *)
(***************************************************************************)
\* entity ids of the enumerated worlds are 1..NumEntities
NumEntities == 3
\* longest collection held by a RelationshipTarget component
MaxFanout == 2
\* most terms a builder session adds
MaxTerms == 2
\* most relationships a builder session adds
MaxRelationships == 1
\* width of an entity generation, in bits (31 in the source, where the top
\* bit of the 32 is reserved)
GenerationBits == 3
\* most filter components the builders of a QueryBuilder session hold
MaxFilters == 3
\* most attribute items a declaration carries
MaxAttrs == 2

VARIABLES
    plan,           \* the frozen QueryPlan: terms, relationships, main_term_index
    world,          \* the world view: live entity -> (component id -> value)
    main_entity,    \* the argument of execute
    pc,             \* "idle" | "running" | "done" | "panic" | "overflow"
    stack,          \* activation records of resolve_term, innermost last
    partial_match,  \* Vec<Option<Entity>>, one slot per term
    results,        \* Vec<Vec<Entity>> returned by execute
    call,           \* the last call made on a builder, on Dynamic, on a
                    \* DynamicMatch or on an EntityMapper, with its arguments
                    \* and what it returned
    mapper,         \* the EntityMapper: map, dead_start, generations
    entities,       \* Entities of the mapper's world: the meta of each index
    builder,        \* the QueryBuilders in use, that of the innermost closure
                    \* last: access, or, first
    ast             \* the declaration handed to a derive: its attributes

vars == <<plan, world, main_entity, pc, stack, partial_match, results, call,
          mapper, entities, builder, ast>>

(***************************************************************************)
(* Entities, components and the world substrate.                           *)
(***************************************************************************)
\* Option::None of a partial_match slot; entities are positive
None == 0

Entity == 1..NumEntities

\* the entities spawned by example_space_game_complex_query, in spawn order
faction_a == 1
faction_b == 2
planet == 3
spaceship == 4

\* components that are Relationship kinds: the component is a newtype around
\* the target Entity
RelationshipKinds ==
    {"ChildOf", "BelongsToFaction", "DockedTo", "RuledBy", "AlliedWith", "AttachedTo"}

\* components that are RelationshipTarget kinds: the component holds a
\* collection of entities
RelationshipTargetKinds == {"Children"}

\* the accessor captured for a relationship component.  A Relationship
\* component is laid out as a sequence of Entity-sized fields, the target
\* sitting at entity_field_offset: offset_of!(R, 0) = 0 for the newtypes
\* around Entity; AttachedTo holds one field before its Entity.
RelationshipAccessor(component) ==
    IF component \in RelationshipTargetKinds
    THEN [kind |-> "RelationshipTarget", entity_field_offset |-> 0]
    ELSE [kind |-> "Relationship",
          entity_field_offset |-> IF component = "AttachedTo" THEN 1 ELSE 0]

\* world.entities().get(entity): present exactly for live entities
entities_get(w, entity) == entity \in DOMAIN w

\* archetype.contains(component_id) for the archetype of a live entity
archetype_contains(w, entity, component_id) == component_id \in DOMAIN w[entity]

\* table.get_component / sparse_set.get: the stored value of the component
get_component(w, entity, component_id) == w[entity][component_id]

(***************************************************************************)
(* FilteredAccess, as far as the plan uses it.                             *)
(***************************************************************************)
\* FilteredAccess::matches_everything()
matches_everything ==
    [reads |-> {}, writes |-> {}, without |-> {}, read_all |-> FALSE]

\* access.add_component_read(id)
add_component_read(access, id) == [access EXCEPT !.reads = @ \cup {id}]

\* access.add_component_write(id)
add_component_write(access, id) == [access EXCEPT !.writes = @ \cup {id}]

\* access.and_without(id)
and_without(access, id) == [access EXCEPT !.without = @ \cup {id}]

\* access.access().try_iter_component_access(): the ids the access names;
\* only meaningful when the access is bounded (not read_all)
try_iter_component_access(access) == access.reads \cup access.writes

(***************************************************************************)
(* QueryElement::matches                                                   *)
(***************************************************************************)
matches_NoArchetypeCheck(term, entity, w) == entities_get(w, entity)

matches_StaleMatches(term, entity, w) ==
    IF ~entities_get(w, entity)
    THEN TRUE
    ELSE IF term.access.read_all
         THEN FALSE
         ELSE \A component_id \in try_iter_component_access(term.access) :
                  archetype_contains(w, entity, component_id)

matches(term, entity, w) ==
    IF ~entities_get(w, entity)
    THEN FALSE
    ELSE IF term.access.read_all
         THEN FALSE
         ELSE \A component_id \in try_iter_component_access(term.access) :
                  archetype_contains(w, entity, component_id)

(***************************************************************************)
(* QueryRelationship::get_related_entities                                 *)
(***************************************************************************)
RECURSIVE dedup(_)
\* a sequence without its repeated elements, first occurrences kept
dedup(seq) ==
    IF seq = <<>>
    THEN <<>>
    ELSE <<Head(seq)>> \o SelectSeq(dedup(Tail(seq)), LAMBDA e : e # Head(seq))

get_related_entities_Deduplicated(relationship, source_entity, w) ==
    IF ~entities_get(w, source_entity)
    THEN <<>>
    ELSE IF ~archetype_contains(w, source_entity, relationship.relationship_component)
         THEN <<>>
         ELSE LET component_ptr ==
                      get_component(w, source_entity, relationship.relationship_component)
              IN  IF relationship.accessor.kind = "Relationship"
                  THEN <<component_ptr[relationship.accessor.entity_field_offset + 1]>>
                  ELSE dedup(component_ptr)

get_related_entities(relationship, source_entity, w) ==
    IF ~entities_get(w, source_entity)
    THEN <<>>
    ELSE IF ~archetype_contains(w, source_entity, relationship.relationship_component)
         THEN <<>>
         ELSE LET component_ptr ==
                      get_component(w, source_entity, relationship.relationship_component)
              IN  IF relationship.accessor.kind = "Relationship"
                  THEN <<component_ptr[relationship.accessor.entity_field_offset + 1]>>
                  ELSE component_ptr

(***************************************************************************)
(* Building a plan: QueryPlan::new, add_term, add_relationship, build.     *)
(***************************************************************************)
\* QueryPlan::new(main_term_index)
QueryPlan_new(main_term_index) ==
    [terms |-> <<>>, relationships |-> <<>>, main_term_index |-> main_term_index]

\* QueryElement::new(term_index, access)
QueryElement_new(term_index, access) ==
    [access |-> access, term_index |-> term_index]

\* QueryPlan::add_term: appends the term at index |terms|
add_term(p, access) ==
    [p EXCEPT !.terms = Append(@, QueryElement_new(Len(p.terms), access))]

\* QueryPlan::add_relationship: only the source index is looked up
\* (QuerySourceNotFound otherwise, the plan is left as it was); the target
\* index is stored unchecked
add_relationship(p, source, target, relationship_component, accessor) ==
    IF source >= Len(p.terms)
    THEN p
    ELSE [p EXCEPT !.relationships =
              Append(@, [source_term |-> source,
                         target_term |-> target,
                         relationship_component |-> relationship_component,
                         accessor |-> accessor])]

\* the Result of add_relationship: the `?` on self.terms.get_mut(source)
add_relationship_Result(p, source) ==
    IF source >= Len(p.terms) THEN "QuerySourceNotFound" ELSE "Ok"

\* TypedQueryPlanBuilder::related_to::<R>: the accessor is built in place,
\* a Relationship with entity_field_offset 0, and the Result of
\* add_relationship is dropped
related_to(p, R, source_term, target_term) ==
    add_relationship(p, source_term, target_term, R,
                     [kind |-> "Relationship", entity_field_offset |-> 0])

\* TypedQueryPlanBuilder::build(main_term_index): the index is stored unchecked
build(p, main_term_index) == [p EXCEPT !.main_term_index = main_term_index]

(***************************************************************************)
(* The plans and worlds execute is run on.                                 *)
(***************************************************************************)
RECURSIVE add_terms(_, _)
\* add_term for each access of the sequence, in order
add_terms(p, accesses) ==
    IF accesses = <<>>
    THEN p
    ELSE add_terms(add_term(p, Head(accesses)), Tail(accesses))

RECURSIVE add_relationships(_, _)
\* add_relationship for each <<source, target, component>>, in order
add_relationships(p, edges) ==
    IF edges = <<>>
    THEN p
    ELSE add_relationships(
             add_relationship(p, Head(edges)[1], Head(edges)[2], Head(edges)[3],
                              RelationshipAccessor(Head(edges)[3])),
             Tail(edges))

\* a plan as the builders produce it: QueryPlan::new, the terms, the edges,
\* then build(main)
BuildPlan(accesses, edges, main) ==
    build(add_relationships(add_terms(QueryPlan_new(0), accesses), edges), main)

\* TypedQueryPlanBuilder::with::<T>()
with(component_id) == add_component_read(matches_everything, component_id)

\* TypedQueryPlanBuilder::with_mut::<T>()
with_mut(component_id) == add_component_write(matches_everything, component_id)

\* TypedQueryPlanBuilder::term()
term == matches_everything

\* the edge graphs of the enumerated plans over the ChildOf / Children
\* relationship: n terms, the edges in insertion order, the main term
PlanShapes ==
    { [n |-> 0, edges |-> <<>>, main |-> 0],
      [n |-> 1, edges |-> <<>>, main |-> 0],
      [n |-> 1, edges |-> <<>>, main |-> 1],
      [n |-> 1, edges |-> << <<0, 1, "ChildOf">> >>, main |-> 0],
      [n |-> 2, edges |-> << <<0, 1, "ChildOf">> >>, main |-> 0],
      [n |-> 2, edges |-> << <<0, 1, "Children">> >>, main |-> 0],
      [n |-> 2, edges |-> << <<0, 1, "ChildOf">>, <<1, 0, "ChildOf">> >>, main |-> 0],
      [n |-> 2, edges |-> << <<0, 0, "ChildOf">>, <<0, 1, "ChildOf">> >>, main |-> 0],
      [n |-> 3, edges |-> << <<0, 1, "ChildOf">>, <<1, 2, "ChildOf">> >>, main |-> 0],
      [n |-> 3, edges |-> << <<0, 1, "ChildOf">>, <<0, 2, "ChildOf">> >>, main |-> 0],
      [n |-> 3, edges |-> << <<0, 1, "ChildOf">>, <<1, 2, "ChildOf">>,
                             <<0, 2, "ChildOf">> >>, main |-> 0] }

\* every shape, each of its terms built by term() or by with::<Marker>()
ShapePlans ==
    UNION { { BuildPlan([i \in 1..s.n |-> IF marker[i] THEN with("Marker") ELSE term],
                        s.edges, s.main) : marker \in [1..s.n -> BOOLEAN] } :
            s \in PlanShapes }

\* the plan of example_space_game_complex_query
SpacePlan ==
    BuildPlan(<<with("SpaceShip"), with("FactionTag"), with("Planet"), with("FactionTag")>>,
              << <<0, 1, "BelongsToFaction">>, <<0, 2, "DockedTo">>,
                 <<2, 3, "RuledBy">>, <<1, 3, "AlliedWith">> >>,
              0)

Plans == ShapePlans \cup {SpacePlan}

\* the world of example_space_game_complex_query
SpaceWorld ==
    (faction_a :> ("FactionTag" :> <<>> @@ "AlliedWith" :> <<faction_b>>))
    @@ (faction_b :> ("FactionTag" :> <<>>))
    @@ (planet :> ("Planet" :> <<>> @@ "RuledBy" :> <<faction_b>>))
    @@ (spaceship :> ("SpaceShip" :> <<>> @@ "BelongsToFaction" :> <<faction_a>>
                      @@ "DockedTo" :> <<planet>>))

\* entities 1..k are live; 1..a of them hold Marker; entity e holds
\* ChildOf(target[e]) unless target[e] is None.  A target may be the entity
\* itself or an entity that is not live.
ChildOfWorld(k, a, target) ==
    [e \in 1..k |->
        [c \in (IF e <= a THEN {"Marker"} ELSE {})
               \cup (IF target[e] # None THEN {"ChildOf"} ELSE {}) |->
            IF c = "ChildOf" THEN <<target[e]>> ELSE <<>>]]

ChildOfWorlds ==
    UNION { UNION { { ChildOfWorld(k, a, target) :
                          target \in [1..k -> Entity \cup {None}] } :
                    a \in 0..k } :
            k \in 0..NumEntities }

\* sequences over S of length at most n
SeqUpTo(S, n) == UNION { [1..m -> S] : m \in 0..n }

\* every entity is live; 1..a of them hold Marker; entity 1 holds Children
ChildrenWorld(a, children) ==
    [e \in Entity |->
        [c \in (IF e <= a THEN {"Marker"} ELSE {})
               \cup (IF e = 1 THEN {"Children"} ELSE {}) |->
            IF c = "Children" THEN children ELSE <<>>]]

ChildrenWorlds ==
    { ChildrenWorld(a, children) :
          a \in 0..NumEntities, children \in SeqUpTo(Entity, MaxFanout) }

Worlds == ChildOfWorlds \cup ChildrenWorlds \cup {SpaceWorld}

(***************************************************************************)
(* QueryPlan::execute and QueryPlan::resolve_term                          *)
(***************************************************************************)
\* the term at a 0-based index
Term(index) == plan.terms[index + 1]

\* the filter of resolve_term: the relationships whose source is term_index,
\* in insertion order
outgoing_relationships_ByTarget(relationships, term_index) ==
    SelectSeq(relationships, LAMBDA r : r.target_term = term_index)

outgoing_relationships(relationships, term_index) ==
    SelectSeq(relationships, LAMBDA r : r.source_term = term_index)

\* the activation record of a call resolve_term(term_index, ..)
Frame(term_index) ==
    [term_index |-> term_index,
     entered |-> FALSE,
     outgoing |-> <<>>,
     relationship |-> 0,
     source_entity |-> None,
     related_entities |-> <<>>,
     target |-> 0,
     previous |-> None]

Top == stack[Len(stack)]

is_complete_Always(pm) == TRUE

\* partial_match.iter().all(|e| e.is_some())
is_complete(pm) == \A i \in 1..Len(pm) : pm[i] # None

\* the call stack after the innermost resolve_term returns: the caller goes
\* on with its next target entity
return_stack(st) ==
    IF Len(st) = 1
    THEN <<>>
    ELSE [SubSeq(st, 1, Len(st) - 1) EXCEPT ![Len(st) - 1].target = @ + 1]

return_partial_match_NoRestore(st, pm) == pm

\* partial_match after the innermost resolve_term returns: the caller
\* restores the slot of its relationship's target term
return_partial_match(st, pm) ==
    IF Len(st) = 1
    THEN pm
    ELSE LET caller == st[Len(st) - 1]
             relationship == caller.outgoing[caller.relationship]
         IN  [pm EXCEPT ![relationship.target_term + 1] = caller.previous]

\* whether the active calls already hold resolve_term(term_index) on this
\* entity.  What a call does depends on the term, the entity bound to it and
\* the world alone, so such a call recurs without end until the stack is
\* exhausted.
recurs(st, term_index, entity) ==
    \E i \in 1..Len(st) :
        st[i].term_index = term_index /\ st[i].source_entity = entity

\* no call was made yet
NoCall == [op |-> "none"]

\* no EntityMapper and no QueryBuilder exist
UnusedElsewhere ==
    /\ mapper = <<>>
    /\ entities = <<>>
    /\ builder = <<>>
    /\ ast = <<>>

Init ==
    /\ plan \in Plans
    /\ world \in Worlds
    /\ main_entity \in Entity \cup DOMAIN world
    /\ pc = "idle"
    /\ stack = <<>>
    /\ partial_match = <<>>
    /\ results = <<>>
    /\ call = NoCall
    /\ UnusedElsewhere

execute_KeepsResults ==
    /\ pc = "idle"
    /\ results' = results
    /\ IF plan.main_term_index >= Len(plan.terms)
       THEN /\ pc' = "panic"
            /\ partial_match' = [i \in 1..Len(plan.terms) |-> None]
            /\ stack' = <<>>
       ELSE /\ partial_match' =
                   [i \in 1..Len(plan.terms) |->
                       IF i = plan.main_term_index + 1 THEN main_entity ELSE None]
            /\ IF ~matches(Term(plan.main_term_index), main_entity, world)
               THEN pc' = "done" /\ stack' = <<>>
               ELSE pc' = "running" /\ stack' = <<Frame(plan.main_term_index)>>
    /\ UNCHANGED <<ast, plan, world, main_entity, call, mapper, entities, builder>>

\* execute, up to the first call of resolve_term
execute ==
    /\ pc = "idle"
    /\ results' = <<>>
    /\ IF plan.main_term_index >= Len(plan.terms)
       THEN \* partial_match[self.main_term_index] is out of bounds
            /\ pc' = "panic"
            /\ partial_match' = [i \in 1..Len(plan.terms) |-> None]
            /\ stack' = <<>>
       ELSE /\ partial_match' =
                   [i \in 1..Len(plan.terms) |->
                       IF i = plan.main_term_index + 1 THEN main_entity ELSE None]
            /\ IF ~matches(Term(plan.main_term_index), main_entity, world)
               THEN pc' = "done" /\ stack' = <<>>
               ELSE pc' = "running" /\ stack' = <<Frame(plan.main_term_index)>>
    /\ UNCHANGED <<ast, plan, world, main_entity, call, mapper, entities, builder>>

\* entry of resolve_term: the leaf case, or the first outgoing relationship
resolve_term ==
    /\ pc = "running"
    /\ stack # <<>>
    /\ ~Top.entered
    /\ LET outgoing == outgoing_relationships(plan.relationships, Top.term_index)
           source_entity == partial_match[Top.term_index + 1]
       IN  IF outgoing = <<>>
           THEN /\ results' = IF is_complete(partial_match)
                              THEN Append(results, partial_match)
                              ELSE results
                /\ stack' = return_stack(stack)
                /\ partial_match' = return_partial_match(stack, partial_match)
                /\ pc' = IF Len(stack) = 1 THEN "done" ELSE "running"
           ELSE /\ stack' = [stack EXCEPT ![Len(stack)] =
                       [@ EXCEPT !.entered = TRUE,
                                 !.outgoing = outgoing,
                                 !.relationship = 1,
                                 !.source_entity = source_entity,
                                 !.related_entities =
                                     get_related_entities(outgoing[1], source_entity, world),
                                 !.target = 1]]
                /\ pc' = IF source_entity = None THEN "panic" ELSE "running"
                /\ UNCHANGED <<partial_match, results>>
    /\ UNCHANGED <<ast, plan, world, main_entity, call, mapper, entities, builder>>

\* one iteration of `for target_entity in related_entities`
for_target_entity ==
    /\ pc = "running"
    /\ stack # <<>>
    /\ Top.entered
    /\ Top.target <= Len(Top.related_entities)
    /\ LET relationship == Top.outgoing[Top.relationship]
           target_entity == Top.related_entities[Top.target]
           target_term == relationship.target_term
       IN  IF target_term >= Len(plan.terms)
           THEN \* self.terms[relationship.target_term] is out of bounds
                /\ pc' = "panic"
                /\ UNCHANGED <<stack, partial_match>>
           ELSE IF ~matches(Term(target_term), target_entity, world)
           THEN \* continue
                /\ stack' = [stack EXCEPT ![Len(stack)].target = @ + 1]
                /\ UNCHANGED <<pc, partial_match>>
           ELSE IF recurs(stack, target_term, target_entity)
           THEN /\ pc' = "overflow"
                /\ UNCHANGED <<stack, partial_match>>
           ELSE /\ stack' = Append(
                       [stack EXCEPT ![Len(stack)].previous = partial_match[target_term + 1]],
                       Frame(target_term))
                /\ partial_match' = [partial_match EXCEPT ![target_term + 1] = target_entity]
                /\ UNCHANGED pc
    /\ UNCHANGED <<ast, plan, world, main_entity, results, call,
                 mapper, entities, builder>>

\* the targets of a relationship are exhausted: the next outgoing
\* relationship, or the return of resolve_term after the last one
next_relationship ==
    /\ pc = "running"
    /\ stack # <<>>
    /\ Top.entered
    /\ Top.target > Len(Top.related_entities)
    /\ IF Top.relationship < Len(Top.outgoing)
       THEN LET source_entity == partial_match[Top.term_index + 1]
            IN  /\ stack' = [stack EXCEPT ![Len(stack)] =
                        [@ EXCEPT !.relationship = @ + 1,
                                  !.source_entity = source_entity,
                                  !.related_entities =
                                      get_related_entities(
                                          Top.outgoing[Top.relationship + 1],
                                          source_entity, world),
                                  !.target = 1]]
                /\ pc' = IF source_entity = None THEN "panic" ELSE "running"
                /\ UNCHANGED partial_match
       ELSE /\ stack' = return_stack(stack)
            /\ partial_match' = return_partial_match(stack, partial_match)
            /\ pc' = IF Len(stack) = 1 THEN "done" ELSE "running"
    /\ UNCHANGED <<ast, plan, world, main_entity, results, call,
                 mapper, entities, builder>>

Next ==
    \/ execute
    \/ resolve_term
    \/ for_target_entity
    \/ next_relationship

Spec == Init /\ [][Next]_vars

\* the caller keeps the tuples execute returned and calls execute once more
\* on the same plan, the same entity and the same world
execute_again ==
    /\ pc = "done"
    /\ call = NoCall
    /\ call' = [op |-> "execute", main_entity |-> main_entity, ret |-> results]
    /\ pc' = "idle"
    /\ UNCHANGED <<ast, plan, world, main_entity, stack, partial_match, results,
                 mapper, entities, builder>>

NextTwice ==
    \/ execute
    \/ resolve_term
    \/ for_target_entity
    \/ next_relationship
    \/ execute_again

SpecTwice == Init /\ [][NextTwice]_vars

\* plans with a term no edge leads to: two terms and no edge, and three
\* terms of which the edge 0 -> 1 reaches one
UnreachableShapes ==
    { [n |-> 2, edges |-> <<>>, main |-> 0],
      [n |-> 3, edges |-> << <<0, 1, "ChildOf">> >>, main |-> 0] }

UnreachablePlans ==
    UNION { { BuildPlan([i \in 1..s.n |-> IF marker[i] THEN with("Marker") ELSE term],
                        s.edges, s.main) : marker \in [1..s.n -> BOOLEAN] } :
            s \in UnreachableShapes }

\* execute on the plans above as well
LeafInit ==
    /\ plan \in Plans \cup UnreachablePlans
    /\ world \in Worlds
    /\ main_entity \in Entity \cup DOMAIN world
    /\ pc = "idle"
    /\ stack = <<>>
    /\ partial_match = <<>>
    /\ results = <<>>
    /\ call = NoCall
    /\ UnusedElsewhere

SpecLeaf == LeafInit /\ [][Next]_vars

(***************************************************************************)
(* FilteredAccess::extend and the accesses declared to the scheduler:      *)
(* QueryPlan::combined_access, Dynamic::update_component_access and        *)
(* Dynamic::init_nested_access.                                            *)
(***************************************************************************)
\* access.extend(other): AND-combine; the required components are united,
\* and so are the constraints of the filter set
extend(access, other) ==
    [reads |-> access.reads \cup other.reads,
     writes |-> access.writes \cup other.writes,
     without |-> access.without \cup other.without,
     read_all |-> access.read_all \/ other.read_all]

RECURSIVE extend_all(_, _)
\* `for term in terms { combined.extend(&term.access) }`
extend_all(combined, terms) ==
    IF terms = <<>>
    THEN combined
    ELSE extend_all(extend(combined, Head(terms).access), Tail(terms))

combined_access_SkipsFirstTerm(p) ==
    IF p.terms = <<>>
    THEN matches_everything
    ELSE extend_all(matches_everything, Tail(p.terms))

\* QueryPlan::combined_access
combined_access(p) == extend_all(matches_everything, p.terms)

\* QueryPlan::main_term_access; only defined when the main term exists
main_term_access(p) == p.terms[p.main_term_index + 1].access

\* Dynamic::init_nested_access: the access of every term but the main one
\* is added to the FilteredAccessSet
init_nested_access(p) ==
    { p.terms[i].access : i \in { j \in 1..Len(p.terms) : j - 1 # p.main_term_index } }

(***************************************************************************)
(* A builder session: QueryPlanBuilder / TypedQueryPlanBuilder calls on a  *)
(* plan under construction, build, then the accesses declared for the      *)
(* frozen plan.                                                            *)
(***************************************************************************)
\* the term indices a caller passes: those of the terms a session can add,
\* and one more
TermIndex == 0..MaxTerms

\* QueryPlanBuilder::new: the plan is QueryPlan::default(), as
\* QueryPlan::new(0) of Dynamic::init_state
BuilderInit ==
    /\ plan = QueryPlan_new(0)
    /\ world = <<>>
    /\ main_entity = None
    /\ pc = "building"
    /\ stack = <<>>
    /\ partial_match = <<>>
    /\ results = <<>>
    /\ call = NoCall
    /\ UnusedElsewhere

\* with::<A>(), with_mut::<A>() or term(): each ends in add_term
call_add_term ==
    /\ pc = "building"
    /\ Len(plan.terms) < MaxTerms
    /\ \E access \in {with("A"), with_mut("A"), term} :
           /\ plan' = add_term(plan, access)
           /\ call' = [op |-> "add_term", access |-> access, ret |-> Len(plan.terms)]
    /\ UNCHANGED <<ast, world, main_entity, pc, stack, partial_match, results,
                 mapper, entities, builder>>

\* add_relationship(source, target, child_of_id, accessor) with the
\* accessor of the tests, offset_of!(ChildOf, 0)
call_add_relationship ==
    /\ pc = "building"
    /\ Len(plan.relationships) < MaxRelationships
    /\ \E source \in TermIndex, target \in TermIndex :
           /\ plan' = add_relationship(plan, source, target, "ChildOf",
                                       RelationshipAccessor("ChildOf"))
           /\ call' = [op |-> "add_relationship", source |-> source, target |-> target,
                       ret |-> add_relationship_Result(plan, source)]
    /\ UNCHANGED <<ast, world, main_entity, pc, stack, partial_match, results,
                 mapper, entities, builder>>

\* related_to::<R>(source_term, target_term); it returns ()
call_related_to ==
    /\ pc = "building"
    /\ Len(plan.relationships) < MaxRelationships
    /\ \E R \in {"ChildOf", "AttachedTo"}, source \in TermIndex, target \in TermIndex :
           /\ plan' = related_to(plan, R, source, target)
           /\ call' = [op |-> "related_to", R |-> R, source |-> source, target |-> target,
                       ret |-> "()"]
    /\ UNCHANGED <<ast, world, main_entity, pc, stack, partial_match, results,
                 mapper, entities, builder>>

\* build(main_term_index): it returns the QueryPlan, not a Result
call_build ==
    /\ pc = "building"
    /\ \E main_term_index \in TermIndex :
           /\ plan' = build(plan, main_term_index)
           /\ call' = [op |-> "build", main_term_index |-> main_term_index, ret |-> "Ok"]
    /\ pc' = "built"
    /\ UNCHANGED <<ast, world, main_entity, stack, partial_match, results,
                 mapper, entities, builder>>

\* plan.combined_access()
call_combined_access ==
    /\ pc = "built"
    /\ call' = [op |-> "combined_access", ret |-> combined_access(plan)]
    /\ UNCHANGED <<ast, plan, world, main_entity, pc, stack, partial_match, results,
                 mapper, entities, builder>>

\* Dynamic::update_component_access(state, access) on a fresh access
call_update_component_access ==
    /\ pc = "built"
    /\ IF plan.main_term_index >= Len(plan.terms)
       THEN \* self.terms[self.main_term_index] is out of bounds
            /\ pc' = "panic"
            /\ call' = [op |-> "update_component_access", ret |-> "panic"]
       ELSE /\ pc' = pc
            /\ call' = [op |-> "update_component_access",
                        access |-> extend(matches_everything, main_term_access(plan)),
                        ret |-> "()"]
    /\ UNCHANGED <<ast, plan, world, main_entity, stack, partial_match, results,
                 mapper, entities, builder>>

\* Dynamic::init_nested_access(state, .., component_access_set, ..), called
\* after update_component_access on the same state
call_init_nested_access ==
    /\ pc = "built"
    /\ call.op = "update_component_access"
    /\ call' = [op |-> "init_nested_access",
                access |-> call.access,
                component_access_set |-> init_nested_access(plan),
                ret |-> "()"]
    /\ UNCHANGED <<ast, plan, world, main_entity, pc, stack, partial_match, results,
                 mapper, entities, builder>>

BuilderNext ==
    \/ call_add_term
    \/ call_add_relationship
    \/ call_related_to
    \/ call_build
    \/ call_combined_access
    \/ call_update_component_access
    \/ call_init_nested_access

SpecBuilder == BuilderInit /\ [][BuilderNext]_vars

(***************************************************************************)
(* Dynamic: the plan is executed for an entity (Dynamic::fetch), and the   *)
(* caller reads the matched entities through DynamicMatch.                 *)
(***************************************************************************)
\* the two entities of builder_with_without_static, in spawn order
entity_a == 1
entity_b == 2

\* access.read_all(): the access may read any component
read_all(access) == [access EXCEPT !.read_all = TRUE]

\* TypedQueryPlanBuilder::without::<T>(term_index)
without(p, term_index, component_id) ==
    [p EXCEPT !.terms[term_index + 1].access = and_without(@, component_id)]

RECURSIVE without_each(_, _, _)
\* without::<T>(i) for the n first term indices i that `forbidden` holds
without_each(p, n, forbidden) ==
    IF n = 0
    THEN p
    ELSE without_each(IF (n - 1) \in forbidden THEN without(p, n - 1, "C") ELSE p,
                      n - 1, forbidden)

\* a single term, and the parent-child chain of test_typed_query_plan_builder
DynamicShapes ==
    { [n |-> 1, edges |-> <<>>, main |-> 0],
      [n |-> 2, edges |-> << <<0, 1, "ChildOf">> >>, main |-> 0] }

\* each term built by term(), with::<A>(), with_mut::<A>() or from an
\* access that reads all components, then without::<C> on some of the terms
DynamicPlans ==
    UNION { { without_each(BuildPlan(accesses, s.edges, s.main), s.n, forbidden) :
                  accesses \in [1..s.n -> {term, with("A"), with_mut("A"),
                                           read_all(matches_everything)}],
                  forbidden \in SUBSET (0..(s.n - 1)) } :
            s \in DynamicShapes }

\* entity_a and entity_b are live; each holds some of A and C, and
\* ChildOf(target[e]) unless target[e] is None
DynamicWorld(held, target) ==
    [e \in {entity_a, entity_b} |->
        [c \in held[e] \cup (IF target[e] # None THEN {"ChildOf"} ELSE {}) |->
            IF c = "ChildOf" THEN <<target[e]>> ELSE <<>>]]

DynamicWorlds ==
    { DynamicWorld(held, target) :
          held \in [{entity_a, entity_b} -> SUBSET {"A", "C"}],
          target \in [{entity_a, entity_b} -> {None, entity_a, entity_b}] }

DynamicInit ==
    /\ plan \in DynamicPlans
    /\ world \in DynamicWorlds
    /\ main_entity \in DOMAIN world
    /\ pc = "idle"
    /\ stack = <<>>
    /\ partial_match = <<>>
    /\ results = <<>>
    /\ call = NoCall
    /\ UnusedElsewhere

\* FilteredEntityRef::new(cell, access): a view of the entity restricted to
\* the access; a FilteredEntityRef has no mutable getter
FilteredEntityRef_new(entity, access) ==
    [kind |-> "FilteredEntityRef", entity |-> entity, access |-> access]

\* access.has_component_read(id)
has_component_read(access, id) ==
    access.read_all \/ id \in access.reads \cup access.writes

\* FilteredEntityRef::get::<T>(): the component, if the access reads it and
\* the entity holds it
FilteredEntityRef_get(view, T, w) ==
    IF has_component_read(view.access, T) /\ archetype_contains(w, view.entity, T)
    THEN "Some"
    ELSE "None"

\* DynamicMatch::entity_ref(term_index) on one of the matches of the item
entity_ref ==
    /\ pc = "done"
    /\ \E m \in 1..Len(results), term_index \in 0..(Len(plan.terms) - 1) :
           call' = [op |-> "entity_ref", term_index |-> term_index,
                    ret |-> FilteredEntityRef_new(results[m][term_index + 1],
                                                  Term(term_index).access)]
    /\ UNCHANGED <<ast, plan, world, main_entity, pc, stack, partial_match, results,
                 mapper, entities, builder>>

\* DynamicMatch::get::<T>(term_index): entity_ref(term_index).get::<T>()
get ==
    /\ pc = "done"
    /\ \E m \in 1..Len(results), term_index \in 0..(Len(plan.terms) - 1),
          T \in {"A", "C"} :
           call' = [op |-> "get", term_index |-> term_index, T |-> T,
                    ret |-> FilteredEntityRef_get(
                                FilteredEntityRef_new(results[m][term_index + 1],
                                                      Term(term_index).access),
                                T, world)]
    /\ UNCHANGED <<ast, plan, world, main_entity, pc, stack, partial_match, results,
                 mapper, entities, builder>>

DynamicNext ==
    \/ execute
    \/ resolve_term
    \/ for_target_entity
    \/ next_relationship
    \/ entity_ref
    \/ get

SpecDynamic == DynamicInit /\ [][DynamicNext]_vars

(***************************************************************************)
(* EntityMapper: dead references on the index of a base entity, and the    *)
(* Entities allocator of the destination world.                            *)
(***************************************************************************)
\* identifier::masks::HIGH_MASK: the bits of a generation
HIGH_MASK == 2^GenerationBits - 1

\* u32 arithmetic wraps at one bit more than a generation
wrapping_add(a, b) == (a + b) % (2 * (HIGH_MASK + 1))

\* IdentifierMask::inc_masked_high_by(lhs, rhs): the sum within the
\* generation bits, an overflow into the reserved bit carried back so that
\* the result is never 0
inc_masked_high_by(lhs, rhs) ==
    LET lo == wrapping_add(lhs % (HIGH_MASK + 1), rhs % (HIGH_MASK + 1))
        overflowed == lo \div (HIGH_MASK + 1)
    IN  wrapping_add(lo, overflowed) % (HIGH_MASK + 1)

\* Entity::from_raw_and_generation(index, generation)
from_raw_and_generation(index, generation) ==
    [index |-> index, generation |-> generation]

\* Entities::alloc: a freed index is reused with the generation of its
\* meta, otherwise a new index starts at generation 1
alloc(es) ==
    IF es.pending # <<>>
    THEN LET index == es.pending[Len(es.pending)]
         IN  [entities |-> [meta |-> [es.meta EXCEPT ![index + 1].alive = TRUE],
                            pending |-> SubSeq(es.pending, 1, Len(es.pending) - 1)],
              ret |-> from_raw_and_generation(index, es.meta[index + 1].generation)]
    ELSE [entities |-> [meta |-> Append(es.meta, [generation |-> 1, alive |-> TRUE]),
                        pending |-> es.pending],
          ret |-> from_raw_and_generation(Len(es.meta), 1)]

\* Entities::free(entity): Some when the entity is the living one of its
\* index; the generation of the meta advances by one
free(es, entity) ==
    IF /\ entity.index < Len(es.meta)
       /\ es.meta[entity.index + 1].alive
       /\ es.meta[entity.index + 1].generation = entity.generation
    THEN [entities |->
              [meta |-> [es.meta EXCEPT ![entity.index + 1] =
                            [generation |-> inc_masked_high_by(@.generation, 1),
                             alive |-> FALSE]],
               pending |-> Append(es.pending, entity.index)],
          ret |-> "Some"]
    ELSE [entities |-> es, ret |-> "None"]

\* Entities::reserve_generations(index, generations): true when the index
\* is free; the generation of the meta advances by `generations`
reserve_generations(es, index, generations) ==
    IF index < Len(es.meta) /\ ~es.meta[index + 1].alive
    THEN [entities |->
              [es EXCEPT !.meta[index + 1].generation =
                             inc_masked_high_by(@, generations)],
          ret |-> TRUE]
    ELSE [entities |-> es, ret |-> FALSE]

get_or_reserve_AlwaysReserves(m, entity) ==
    LET new == from_raw_and_generation(
                   m.dead_start.index,
                   inc_masked_high_by(m.dead_start.generation, m.generations))
    IN  [mapper |-> [m EXCEPT !.generations = (m.generations + 1) % (HIGH_MASK + 1),
                              !.map = [e \in DOMAIN m.map \cup {entity} |->
                                          IF e = entity THEN new ELSE m.map[e]]],
         ret |-> new]

\* EntityMapper::get_or_reserve(entity)
get_or_reserve(m, entity) ==
    IF entity \in DOMAIN m.map
    THEN [mapper |-> m, ret |-> m.map[entity]]
    ELSE LET new == from_raw_and_generation(
                        m.dead_start.index,
                        inc_masked_high_by(m.dead_start.generation, m.generations))
         IN  [mapper |-> [m EXCEPT !.generations = (m.generations + 1) % (HIGH_MASK + 1),
                                   !.map = [e \in DOMAIN m.map \cup {entity} |->
                                               IF e = entity THEN new ELSE m.map[e]]],
              ret |-> new]

\* the source entities handed to the mapper, Entity::from_raw(1), (2), ..:
\* enough of them for the generations counter to wrap
Sources == 1..(HIGH_MASK + 2)

\* a new World, or a World whose index 0 was freed at some generation;
\* the caller's EntityHashMap is empty
MapperInit ==
    /\ entities \in
           {[meta |-> <<>>, pending |-> <<>>]}
           \cup { [meta |-> <<[generation |-> g, alive |-> FALSE]>>, pending |-> <<0>>] :
                      g \in 1..HIGH_MASK }
    /\ mapper = <<>>
    /\ builder = <<>>
    /\ ast = <<>>
    /\ plan = QueryPlan_new(0)
    /\ world = <<>>
    /\ main_entity = None
    /\ pc = "idle"
    /\ stack = <<>>
    /\ partial_match = <<>>
    /\ results = <<>>
    /\ call = NoCall

\* EntityMapper::new(map, world)
EntityMapper_new ==
    /\ pc = "idle"
    /\ mapper = <<>>
    /\ entities' = alloc(entities).entities
    /\ mapper' = [map |-> <<>>, dead_start |-> alloc(entities).ret, generations |-> 0]
    /\ call' = [op |-> "new", ret |-> alloc(entities).ret]
    /\ pc' = "mapping"
    /\ UNCHANGED <<ast, plan, world, main_entity, stack, partial_match, results, builder>>

\* mapper.get_or_reserve(entity), on a source already mapped or on the next
\* source
call_get_or_reserve ==
    /\ pc = "mapping"
    /\ \E entity \in Sources :
           /\ entity <= Cardinality(DOMAIN mapper.map) + 1
           /\ mapper' = get_or_reserve(mapper, entity).mapper
           /\ call' = [op |-> "get_or_reserve", entity |-> entity,
                       ret |-> get_or_reserve(mapper, entity).ret]
    /\ UNCHANGED <<ast, plan, world, main_entity, pc, stack, partial_match, results,
                   entities, builder>>

\* mapper.finish(world): the base entity is freed and the generations
\* handed out are reserved; either assert fails with a panic
finish ==
    /\ pc = "mapping"
    /\ LET freed == free(entities, mapper.dead_start)
           reserved == reserve_generations(freed.entities, mapper.dead_start.index,
                                           mapper.generations)
       IN  IF freed.ret = "None"
           THEN pc' = "panic" /\ entities' = freed.entities
           ELSE IF ~reserved.ret
           THEN pc' = "panic" /\ entities' = reserved.entities
           ELSE pc' = "finished" /\ entities' = reserved.entities
    /\ call' = [op |-> "finish", ret |-> "()"]
    /\ UNCHANGED <<ast, plan, world, main_entity, stack, partial_match, results,
                   mapper, builder>>

\* world.spawn_empty() after the mapper was finished
spawn_empty ==
    /\ pc = "finished"
    /\ entities' = alloc(entities).entities
    /\ call' = [op |-> "spawn_empty", ret |-> alloc(entities).ret]
    /\ pc' = "spawned"
    /\ UNCHANGED <<ast, plan, world, main_entity, stack, partial_match, results,
                   mapper, builder>>

MapperNext ==
    \/ EntityMapper_new
    \/ call_get_or_reserve
    \/ finish
    \/ spawn_empty

SpecMapper == MapperInit /\ [][MapperNext]_vars

(***************************************************************************)
(* QueryBuilder: filters, or-groups, density.                              *)
(***************************************************************************)
\* the component kinds of the builder tests: A, B, C and Dense are table
\* components (A stands for Dense), Sparse is `storage = "SparseSet"`
ComponentNames == <<"A", "B", "C", "Sparse">>

Components == { ComponentNames[i] : i \in DOMAIN ComponentNames }

\* the ids a caller can hand to with_id: the registered ones and one that
\* was never registered
ComponentIds == Components \cup {"Unregistered"}

\* world.components().get_info(id).map(|info| info.storage_type())
storage_type(id) ==
    IF id \notin Components THEN "None"
    ELSE IF id = "Sparse" THEN "SparseSet"
    ELSE "Table"

\* AccessFilters::default()
AccessFilters_default == [with |-> {}, without |-> {}]

\* FilteredAccess::default(): one filter set that matches everything
FilteredAccess_default ==
    [reads |-> {}, writes |-> {}, read_all |-> FALSE, required |-> {},
     filter_sets |-> <<AccessFilters_default>>]

\* FilteredAccess::and_with(id): every filter set requires id
FilteredAccess_and_with(access, id) ==
    [access EXCEPT !.filter_sets =
        [i \in DOMAIN access.filter_sets |->
            [with |-> access.filter_sets[i].with \cup {id},
             without |-> access.filter_sets[i].without]]]

\* FilteredAccess::and_without(id): every filter set forbids id
FilteredAccess_and_without(access, id) ==
    [access EXCEPT !.filter_sets =
        [i \in DOMAIN access.filter_sets |->
            [with |-> access.filter_sets[i].with,
             without |-> access.filter_sets[i].without \cup {id}]]]

\* FilteredAccess::add_component_read(id): read, required and with
FilteredAccess_add_component_read(access, id) ==
    FilteredAccess_and_with(
        [access EXCEPT !.reads = @ \cup {id}, !.required = @ \cup {id}], id)

\* FilteredAccess::extend(other): the accesses and the required components
\* are united, the filter sets distribute
FilteredAccess_extend(access, other) ==
    LET n == Len(access.filter_sets)
        m == Len(other.filter_sets)
    IN  [reads |-> access.reads \cup other.reads,
         writes |-> access.writes \cup other.writes,
         read_all |-> access.read_all \/ other.read_all,
         required |-> access.required \cup other.required,
         filter_sets |->
            [k \in 1..(n * m) |->
                LET filter == access.filter_sets[((k - 1) \div m) + 1]
                    other_filter == other.filter_sets[((k - 1) % m) + 1]
                IN  [with |-> filter.with \cup other_filter.with,
                     without |-> filter.without \cup other_filter.without]]]

\* FilteredAccess::append_or(other): the filter sets of other become
\* alternatives
FilteredAccess_append_or(access, other) ==
    [access EXCEPT !.filter_sets = @ \o other.filter_sets]

\* the query data and filter types the builder is used with
With(T) == [kind |-> "With", T |-> T]

Without(T) == [kind |-> "Without", T |-> T]

Ref(T) == [kind |-> "&", T |-> T]

EntityData == [kind |-> "Entity", T |-> "()"]

EntityRef == [kind |-> "EntityRef", T |-> "()"]

\* T::update_component_access(&state, &mut access) of these types
WorldQuery_update_component_access(T, access) ==
    CASE T.kind = "With" -> FilteredAccess_and_with(access, T.T)
      [] T.kind = "Without" -> FilteredAccess_and_without(access, T.T)
      [] T.kind = "&" -> FilteredAccess_add_component_read(access, T.T)
      [] T.kind = "EntityRef" -> [access EXCEPT !.read_all = TRUE]
      [] OTHER -> access

\* T::matches_component_set(&state, &|id| archetype.contains(id))
WorldQuery_matches_component_set(T, w, entity) ==
    CASE T.kind = "With" -> archetype_contains(w, entity, T.T)
      [] T.kind = "Without" -> ~archetype_contains(w, entity, T.T)
      [] T.kind = "&" -> archetype_contains(w, entity, T.T)
      [] OTHER -> TRUE

\* QueryBuilder::<D>::new(world), F = ()
QueryBuilder_new(D) ==
    [access |-> FilteredAccess_extend(
                    WorldQuery_update_component_access(D, FilteredAccess_default),
                    FilteredAccess_default),
     or |-> FALSE,
     first |-> FALSE,
     D |-> D]

extend_access_AlwaysAnd(b, access) ==
    [b EXCEPT !.access = FilteredAccess_extend(@, access)]

\* QueryBuilder::extend_access(access)
extend_access(b, access) ==
    IF b.or
    THEN IF b.first
         THEN [b EXCEPT !.access =
                            FilteredAccess_extend(@, [access EXCEPT !.required = {}]),
                        !.first = FALSE]
         ELSE [b EXCEPT !.access = FilteredAccess_append_or(@, access)]
    ELSE [b EXCEPT !.access = FilteredAccess_extend(@, access)]

filter_WithoutAsWith(b, T) ==
    extend_access(b, FilteredAccess_and_with(FilteredAccess_default, T.T))

\* QueryBuilder::filter::<T>(), and with::<T>() / without::<T>() through it
filter(b, T) ==
    extend_access(b, WorldQuery_update_component_access(T, FilteredAccess_default))

\* QueryBuilder::with_id(id)
with_id(b, id) ==
    extend_access(b, FilteredAccess_and_with(FilteredAccess_default, id))

\* QueryBuilder::without_id(id)
without_id(b, id) ==
    extend_access(b, FilteredAccess_and_without(FilteredAccess_default, id))

\* QueryBuilder::or, before the closure runs: the builder handed to it
or_builder == [QueryBuilder_new([kind |-> "()", T |-> "()"]) EXCEPT !.or = TRUE, !.first = TRUE]

\* QueryBuilder::or, after the closure ran: self.access.extend(builder.access())
QueryBuilder_or(b, inner) ==
    [b EXCEPT !.access = FilteredAccess_extend(@, inner.access)]

\* self.access.with_filters()
with_filters(access) ==
    UNION { access.filter_sets[i].with : i \in DOMAIN access.filter_sets }

\* self.access.without_filters()
without_filters(access) ==
    UNION { access.filter_sets[i].without : i \in DOMAIN access.filter_sets }

is_dense_IgnoresFilters(b) ==
    IF b.access.read_all
    THEN FALSE
    ELSE \A id \in b.access.reads \cup b.access.writes : storage_type(id) = "Table"

\* QueryBuilder::is_dense
is_dense(b) ==
    IF b.access.read_all
    THEN FALSE
    ELSE /\ \A id \in b.access.reads \cup b.access.writes : storage_type(id) = "Table"
         /\ ~b.access.read_all
         /\ \A id \in with_filters(b.access) : storage_type(id) = "Table"
         /\ \A id \in without_filters(b.access) : storage_type(id) = "Table"

\* Dynamic::IS_DENSE
IS_DENSE == FALSE

\* QueryState::matches_component_set: some filter set holds of the archetype
QueryState_matches_component_set(access, w, entity) ==
    \E i \in DOMAIN access.filter_sets :
        /\ \A id \in access.filter_sets[i].with : archetype_contains(w, entity, id)
        /\ \A id \in access.filter_sets[i].without : ~archetype_contains(w, entity, id)

\* QueryState::from_builder(builder): the access of D extended by the
\* builder's, and the density the builder reports
from_builder(b) ==
    [component_access |->
         FilteredAccess_extend(
             WorldQuery_update_component_access(b.D, FilteredAccess_default),
             b.access),
     D |-> b.D,
     is_dense |-> is_dense(b)]

\* QueryState::new_archetype: D and the access of the state accept the
\* archetype of the entity
new_archetype(state, w, e) ==
    /\ WorldQuery_matches_component_set(state.D, w, e)
    /\ QueryState_matches_component_set(state.component_access, w, e)

\* query.iter(&world): the entities of the matched archetypes, in the order
\* of the world
iter(state, w) ==
    SelectSeq([e \in DOMAIN w |-> e], LAMBDA e : new_archetype(state, w, e))

\* world.spawn(bundle) for each bundle of a list
spawn_all(bundles) ==
    [e \in DOMAIN bundles |-> [c \in bundles[e] |-> 0]]

\* the k-th bundle of components, every subset of Components being one
Bundle(k) ==
    { ComponentNames[i] : i \in { j \in DOMAIN ComponentNames : (k \div 2^(j - 1)) % 2 = 1 } }

\* tests::builder_or spawns (A, B), (B), (C)
builder_or_entities == 1..3

\* the or-without scenario: e1 = (A, B), e2 = (A), e3 = (B)
or_without_entities == 4..6

\* tests::builder_static_dense_dynamic_sparse spawns (Dense), (Dense, Sparse)
dense_sparse_entities == 7..8

\* one entity of every bundle
every_bundle_entities == 9..(8 + 2^Len(ComponentNames))

\* one world that holds the entities of these scenarios and, after them, one
\* entity of every bundle; whether a query matches an entity depends on the
\* entity's archetype alone
BuilderWorld ==
    spawn_all(<<{"A", "B"}, {"B"}, {"C"}>>
              \o <<{"A", "B"}, {"A"}, {"B"}>>
              \o <<{"A"}, {"A", "Sparse"}>>
              \o [k \in 1..(2^Len(ComponentNames)) |-> Bundle(k - 1)])

\* the entities of a scenario among those a query returned
among(matched, scenario_entities) ==
    SelectSeq(matched, LAMBDA e : e \in scenario_entities)

RECURSIVE CountFilterSets(_)
\* the filter components a sequence of filter sets holds
CountFilterSets(filter_sets) ==
    IF filter_sets = <<>>
    THEN 0
    ELSE Cardinality(Head(filter_sets).with) + Cardinality(Head(filter_sets).without)
         + CountFilterSets(Tail(filter_sets))

RECURSIVE CountFilters(_)
\* the filter components a stack of builders holds
CountFilters(builders) ==
    IF builders = <<>>
    THEN 0
    ELSE CountFilterSets(Head(builders).access.filter_sets) + CountFilters(Tail(builders))

\* the filter components the builders in use hold
FilterCount == CountFilters(builder)

\* the builder the next call is made on: that of the innermost closure
Innermost == Len(builder)

\* QueryBuilder::<D>::new(&mut world), D one of Entity, &Dense, EntityRef
QueryBuilderInit ==
    /\ world = BuilderWorld
    /\ builder \in { <<QueryBuilder_new(D)>> : D \in {EntityData, Ref("A"), EntityRef} }
    /\ pc = "building"
    /\ plan = QueryPlan_new(0)
    /\ main_entity = None
    /\ stack = <<>>
    /\ partial_match = <<>>
    /\ results = <<>>
    /\ call = NoCall
    /\ mapper = <<>>
    /\ entities = <<>>
    /\ ast = <<>>

\* builder.with::<T>() or builder.without::<T>() of a registered kind, or
\* builder.with_id(id) or builder.without_id(id) of an id that was never
\* registered; the call is recorded by the filter it adds
call_filter ==
    /\ pc = "building"
    /\ FilterCount < MaxFilters
    /\ \E T \in { With(c) : c \in ComponentIds } \cup { Without(c) : c \in ComponentIds } :
           /\ builder' = [builder EXCEPT ![Innermost] =
                             IF T.T \in Components THEN filter(@, T)
                             ELSE IF T.kind = "With" THEN with_id(@, T.T)
                             ELSE without_id(@, T.T)]
           /\ call' = [op |-> "filter", T |-> T]
    /\ UNCHANGED <<ast, plan, world, main_entity, pc, stack, partial_match, results,
                   mapper, entities>>

\* builder.or(|builder| ..): the closure is entered on a new builder
or_enter ==
    /\ pc = "building"
    /\ FilterCount + Len(builder) <= MaxFilters
    /\ builder' = Append(builder, or_builder)
    /\ call' = [op |-> "or"]
    /\ UNCHANGED <<ast, plan, world, main_entity, pc, stack, partial_match, results,
                   mapper, entities>>

\* the closure of or returns: its access extends that of the outer builder
or_return ==
    /\ pc = "building"
    /\ Len(builder) >= 2
    /\ builder' = Append(SubSeq(builder, 1, Len(builder) - 2),
                         QueryBuilder_or(builder[Len(builder) - 1], builder[Len(builder)]))
    /\ call' = [op |-> "or_return"]
    /\ UNCHANGED <<ast, plan, world, main_entity, pc, stack, partial_match, results,
                   mapper, entities>>

\* builder.build() and query.iter(&world)
call_builder_build ==
    /\ pc = "building"
    /\ Len(builder) = 1
    /\ results' = iter(from_builder(builder[1]), world)
    /\ call' = [op |-> "build", is_dense |-> from_builder(builder[1]).is_dense]
    /\ pc' = "built"
    /\ UNCHANGED <<ast, plan, world, main_entity, stack, partial_match, mapper, entities,
                   builder>>

\* builder.build_dynamic(): `let is_dense = false`
build_dynamic ==
    /\ pc = "building"
    /\ Len(builder) = 1
    /\ call' = [op |-> "build_dynamic", is_dense |-> FALSE]
    /\ pc' = "built"
    /\ UNCHANGED <<ast, plan, world, main_entity, stack, partial_match, results,
                   mapper, entities, builder>>

QueryBuilderNext ==
    \/ call_filter
    \/ or_enter
    \/ or_return
    \/ call_builder_build
    \/ build_dynamic

SpecQueryBuilder == QueryBuilderInit /\ [][QueryBuilderNext]_vars

(***************************************************************************)
(* derive(Component) and derive(Resource): the attributes of a             *)
(* declaration.                                                            *)
(***************************************************************************)
COMPONENT == "component"

RESOURCE == "resource"

CHANGED_DETECTION == "change_detection"

STORAGE == "storage"

\* values for `storage` attribute
TABLE == "Table"

SPARSE_SET == "SparseSet"

\* the literals an attribute can carry: strings, booleans, an integer
Lits ==
    { [type |-> "Str", value |-> v] :
          v \in {"Table", "SparseSet", "Dense", "Sparse", "table"} }
    \cup { [type |-> "Bool", value |-> v] : v \in {"true", "false"} }
    \cup { [type |-> "Int", value |-> "0"] }

\* the keys an attribute can carry
Paths == {STORAGE, CHANGED_DETECTION, "other"}

\* syn::NestedMeta: `key = lit`, a bare `key`, or a bare literal
NestedMeta ==
    { [kind |-> "NameValue", path |-> k, lit |-> l] : k \in Paths, l \in Lits }
    \cup { [kind |-> "Path", path |-> k, lit |-> [type |-> "None", value |-> ""]] :
              k \in Paths }
    \cup { [kind |-> "Lit", path |-> "", lit |-> l] : l \in Lits }

\* bevy_macro_utils::parse_attrs(ast, name): the items of the attribute
parse_attrs(a, attr_name) == a.attrs

\* Error::new_spanned(tokens, message): the error points at a token of the
\* i-th item
new_spanned(i, token, message) ==
    [ok |-> FALSE, span |-> <<i, token>>, message |-> message]

\* bevy_macro_utils::get_lit_str(attr_name, lit)
get_lit_str(attr_name, i, lit) ==
    IF lit.type = "Str"
    THEN [ok |-> TRUE, value |-> lit.value]
    ELSE new_spanned(i, "lit", <<"expected attribute to be a string", attr_name>>)

match_component_meta_StorageUnchecked(meta, i, attrs) ==
    IF meta.kind = "NameValue" /\ meta.path = STORAGE
    THEN [ok |-> TRUE, attrs |-> [attrs EXCEPT !.storage = "Table"]]
    ELSE IF meta.kind = "NameValue" /\ meta.path = CHANGED_DETECTION
    THEN IF meta.lit.type = "Bool"
         THEN [ok |-> TRUE,
               attrs |-> [attrs EXCEPT !.change_detection_enabled = meta.lit.value]]
         ELSE new_spanned(i, "lit", <<"Change detection must be a bool">>)
    ELSE IF meta.kind \in {"NameValue", "Path"}
    THEN new_spanned(i, "path", <<"unknown component attribute", meta.path>>)
    ELSE new_spanned(i, "lit", <<"unexpected literal in component attribute">>)

\* parse_component_attrs: the `match meta` of its loop, on the i-th item
match_component_meta(meta, i, attrs) ==
    IF meta.kind = "NameValue" /\ meta.path = STORAGE
    THEN LET s == get_lit_str(STORAGE, i, meta.lit)
         IN  IF ~s.ok
             THEN s
             ELSE IF s.value = TABLE
             THEN [ok |-> TRUE, attrs |-> [attrs EXCEPT !.storage = "Table"]]
             ELSE IF s.value = SPARSE_SET
             THEN [ok |-> TRUE, attrs |-> [attrs EXCEPT !.storage = "SparseSet"]]
             ELSE new_spanned(i, "lit",
                              <<"Invalid storage type", s.value, TABLE, SPARSE_SET>>)
    ELSE IF meta.kind = "NameValue" /\ meta.path = CHANGED_DETECTION
    THEN IF meta.lit.type = "Bool"
         THEN [ok |-> TRUE,
               attrs |-> [attrs EXCEPT !.change_detection_enabled = meta.lit.value]]
         ELSE new_spanned(i, "lit", <<"Change detection must be a bool">>)
    ELSE IF meta.kind \in {"NameValue", "Path"}
    THEN new_spanned(i, "path", <<"unknown component attribute", meta.path>>)
    ELSE new_spanned(i, "lit", <<"unexpected literal in component attribute">>)

\* parse_resource_attrs: the `match meta` of its loop, on the i-th item
match_resource_meta(meta, i, attrs) ==
    IF meta.kind = "NameValue" /\ meta.path = CHANGED_DETECTION
    THEN IF meta.lit.type = "Bool"
         THEN [ok |-> TRUE,
               attrs |-> [attrs EXCEPT !.change_detection_enabled = meta.lit.value]]
         ELSE new_spanned(i, "lit", <<"Change detection must be a bool">>)
    ELSE IF meta.kind \in {"NameValue", "Path"}
    THEN new_spanned(i, "path", <<"unknown resource attribute", meta.path>>)
    ELSE new_spanned(i, "lit", <<"unexpected literal in resource attribute">>)

RECURSIVE for_meta_in(_, _, _, _)
\* `for meta in meta_items { match meta { .. } }`, from the i-th item on:
\* the first error returns, otherwise Ok(attrs)
for_meta_in(meta_items, i, attrs, derive) ==
    IF i > Len(meta_items)
    THEN [ok |-> TRUE, attrs |-> attrs]
    ELSE LET r == IF derive = COMPONENT
                  THEN match_component_meta(meta_items[i], i, attrs)
                  ELSE match_resource_meta(meta_items[i], i, attrs)
         IN  IF r.ok THEN for_meta_in(meta_items, i + 1, r.attrs, derive) ELSE r

\* parse_component_attrs(ast)
parse_component_attrs(a) ==
    for_meta_in(parse_attrs(a, COMPONENT), 1,
                [change_detection_enabled |-> "true", storage |-> "Table"], COMPONENT)

\* parse_resource_attrs(ast)
parse_resource_attrs(a) ==
    for_meta_in(parse_attrs(a, RESOURCE), 1,
                [change_detection_enabled |-> "true"], RESOURCE)

\* storage_path(bevy_ecs_path, ty)
storage_path(ty) == IF ty = "Table" THEN "TableStorage" ELSE "SparseStorage"

\* derive_component(input): the impl of Component, or the compile error
derive_component(a) ==
    LET attrs == parse_component_attrs(a)
    IN  IF ~attrs.ok
        THEN [impl |-> "none", compile_error |-> [span |-> attrs.span,
                                                  message |-> attrs.message]]
        ELSE [impl |-> "Component",
              CHANGE_DETECTION_ENABLED |-> attrs.attrs.change_detection_enabled,
              Storage |-> storage_path(attrs.attrs.storage)]

\* derive_resource(input): the impl of Resource, or the compile error
derive_resource(a) ==
    LET attrs == parse_resource_attrs(a)
    IN  IF ~attrs.ok
        THEN [impl |-> "none", compile_error |-> [span |-> attrs.span,
                                                  message |-> attrs.message]]
        ELSE [impl |-> "Resource",
              CHANGE_DETECTION_ENABLED |-> attrs.attrs.change_detection_enabled]

\* the attribute lists of at most MaxAttrs items
MetaItems == UNION { [1..n -> NestedMeta] : n \in 0..MaxAttrs }

\* a declaration with #[component(..)] or #[resource(..)] attributes, not
\* yet expanded
DeriveInit ==
    /\ ast \in { [derive |-> d, attrs |-> items] :
                    d \in {COMPONENT, RESOURCE}, items \in MetaItems }
    /\ pc = "declared"
    /\ call = NoCall
    /\ plan = QueryPlan_new(0)
    /\ world = <<>>
    /\ main_entity = None
    /\ stack = <<>>
    /\ partial_match = <<>>
    /\ results = <<>>
    /\ mapper = <<>>
    /\ entities = <<>>
    /\ builder = <<>>

\* #[derive(Component)] expands
call_derive_component ==
    /\ pc = "declared"
    /\ ast.derive = COMPONENT
    /\ call' = [op |-> "derive_component", ret |-> derive_component(ast)]
    /\ pc' = "expanded"
    /\ UNCHANGED <<ast, plan, world, main_entity, stack, partial_match, results,
                   mapper, entities, builder>>

\* #[derive(Resource)] expands
call_derive_resource ==
    /\ pc = "declared"
    /\ ast.derive = RESOURCE
    /\ call' = [op |-> "derive_resource", ret |-> derive_resource(ast)]
    /\ pc' = "expanded"
    /\ UNCHANGED <<ast, plan, world, main_entity, stack, partial_match, results,
                   mapper, entities, builder>>

DeriveNext ==
    \/ call_derive_component
    \/ call_derive_resource

SpecDerive == DeriveInit /\ [][DeriveNext]_vars

(***************************************************************************)
(* The contract of execute, stated on the world.                           *)
(***************************************************************************)
\* the term match predicate of the contract: the entity is live and its
\* archetype holds every component the access names (any live entity when
\* the access is unbounded) and none the access forbids
satisfies(access, entity, w) ==
    /\ entity \in DOMAIN w
    /\ access.read_all \/ (access.reads \cup access.writes) \subseteq DOMAIN w[entity]
    /\ access.without \cap DOMAIN w[entity] = {}

\* the entities the relationship component of the edge, held by `source`,
\* points at
points_at(edge, source, w) ==
    IF source \in DOMAIN w /\ edge.relationship_component \in DOMAIN w[source]
    THEN IF edge.accessor.kind = "Relationship"
         THEN {w[source][edge.relationship_component][edge.accessor.entity_field_offset + 1]}
         ELSE { w[source][edge.relationship_component][j] :
                    j \in 1..Len(w[source][edge.relationship_component]) }
    ELSE {}

\* the edge is witnessed by a tuple: both its terms are slots of the tuple
\* and the component on the source slot's entity points at the target
\* slot's entity
edge_witnessed(edge, tuple, w) ==
    /\ edge.source_term < Len(tuple)
    /\ edge.target_term < Len(tuple)
    /\ tuple[edge.target_term + 1] \in points_at(edge, tuple[edge.source_term + 1], w)

\* the tuples the contract of execute asks for
SatisfyingTuples ==
    { tuple \in [1..Len(plan.terms) -> DOMAIN world] :
        /\ plan.main_term_index < Len(plan.terms)
        /\ tuple[plan.main_term_index + 1] = main_entity
        /\ \A i \in 1..Len(plan.terms) : satisfies(plan.terms[i].access, tuple[i], world)
        /\ \A r \in 1..Len(plan.relationships) :
               edge_witnessed(plan.relationships[r], tuple, world) }

Returned == { results[i] : i \in 1..Len(results) }

\* C1: when execute returns, the returned tuples are exactly the tuples
\* with the main entity in the main slot, every slot's entity satisfying
\* its term's access and every edge witnessed by its relationship
\* component: none missing, none violating a term or an edge.
C1_ExecuteReturnsExactlyTheSatisfyingTuples ==
    pc = "done" => Returned = SatisfyingTuples

\* C2 (P1 main-anchor): every returned tuple holds the main entity in the
\* main term's slot, also when an edge targets the main term.
C2_MainAnchor ==
    \A i \in 1..Len(results) : results[i][plan.main_term_index + 1] = main_entity

\* C3 (P3 edge-witness): for every returned tuple and every edge of the
\* plan, the edge's component read from the source slot's entity yields the
\* target slot's entity.
C3_EdgeWitness ==
    \A i \in 1..Len(results) :
        \A r \in 1..Len(plan.relationships) :
            edge_witnessed(plan.relationships[r], results[i], world)

\* C4 (P2 term-match): for every returned tuple and every term, the slot's
\* entity is live and its archetype contains every component id of the
\* term's required access.
C4_TermMatch ==
    \A i \in 1..Len(results) :
        \A j \in 1..Len(plan.terms) :
            /\ results[i][j] \in DOMAIN world
            /\ try_iter_component_access(plan.terms[j].access)
                   \subseteq DOMAIN world[results[i][j]]

\* a tuple of three distinct entities was returned for a plan whose three
\* terms all require Marker
C4_Witness ==
    /\ pc = "done"
    /\ results # <<>>
    /\ Len(plan.terms) = 3
    /\ \A j \in 1..Len(plan.terms) : plan.terms[j].access.reads = {"Marker"}
    /\ Cardinality({results[1][j] : j \in 1..3}) = 3

\* C5: the multi-hop must-agree scenario of the space game (ship s belongs
\* to fa, is docked to p, p is ruled by fb, fa is allied with fb) yields
\* exactly the one tuple (s, fa, p, fb).
C5_SpaceGameYieldsOneTuple ==
    (plan = SpacePlan /\ world = SpaceWorld /\ main_entity = spaceship /\ pc = "done")
        => results = << <<spaceship, faction_a, planet, faction_b>> >>

\* a two-term plan with the single Relationship edge 0 -> 1, main term 0,
\* run on an entity that matches term 0 and whose relationship component
\* points at a live entity matching term 1
C6_Scenario ==
    /\ Len(plan.terms) = 2
    /\ Len(plan.relationships) = 1
    /\ plan.main_term_index = 0
    /\ plan.relationships[1].source_term = 0
    /\ plan.relationships[1].target_term = 1
    /\ plan.relationships[1].accessor.kind = "Relationship"
    /\ satisfies(plan.terms[1].access, main_entity, world)
    /\ plan.relationships[1].relationship_component \in DOMAIN world[main_entity]
    /\ satisfies(plan.terms[2].access,
                 world[main_entity][plan.relationships[1].relationship_component][1],
                 world)

\* C6: in that scenario execute returns, and returns exactly one tuple, of
\* length 2: (the main entity, the entity its relationship component
\* points at).
C6_ParentChildYieldsOneTuple ==
    (C6_Scenario /\ pc \notin {"idle", "running"})
        => /\ pc = "done"
           /\ results =
                  << <<main_entity,
                       world[main_entity][plan.relationships[1].relationship_component][1]>> >>

\* the scenario was executed with both terms requiring Marker and a parent
\* other than the child
C6_Witness ==
    /\ C6_Scenario
    /\ pc = "done"
    /\ plan.terms[1].access.reads = {"Marker"}
    /\ plan.terms[2].access.reads = {"Marker"}
    /\ Len(results) = 1
    /\ results[1][2] # main_entity

\* C7: execute never fails: it never reaches a panic, whatever plan the
\* constructors and builders produced.
C7_ExecuteNeverFails == pc # "panic"

\* C8: execute terminates: the recursion of resolve_term never goes on
\* without end, also for a cyclic edge graph on a world whose relationship
\* components point around the cycle.
C8_ExecuteTerminates == pc # "overflow"

\* C9: when a candidate is accepted for a target term (resolve_term is
\* called on it), every slot that was already bound keeps its entity: a
\* candidate that disagrees with the binding of its slot is never accepted.
C9_BoundTargetMustAgree ==
    [][ (pc = "running" /\ Len(stack') = Len(stack) + 1)
            => \A i \in 1..Len(partial_match) :
                   partial_match[i] # None => partial_match'[i] = partial_match[i] ]_vars

\* C10 (P5 empty on stale): when the main entity is not live, execute
\* returns, and returns the empty sequence.
C10_EmptyOnStale ==
    (pc \notin {"idle", "running"} /\ ~entities_get(world, main_entity))
        => (pc = "done" /\ results = <<>>)

\* the innermost call has loaded a relationship whose component the source
\* entity lacks
C11_MissingComponent(st, w) ==
    /\ st # <<>>
    /\ st[Len(st)].entered
    /\ st[Len(st)].source_entity \in DOMAIN w
    /\ st[Len(st)].outgoing[st[Len(st)].relationship].relationship_component
           \notin DOMAIN w[st[Len(st)].source_entity]

\* the innermost call is about to test a candidate that is not live against
\* the target term of its relationship
C11_StaleCandidate ==
    /\ pc = "running"
    /\ stack # <<>>
    /\ Top.entered
    /\ Top.target <= Len(Top.related_entities)
    /\ Top.related_entities[Top.target] \notin DOMAIN world
    /\ Top.outgoing[Top.relationship].target_term < Len(plan.terms)

\* C11: the runtime pruning conditions never raise.  A relationship loaded
\* for a source entity that lacks its component has zero candidates and the
\* traversal goes on; a candidate that is not live fails the match of the
\* target term and is skipped: nothing is bound, nothing is emitted, and
\* the traversal goes on with the next candidate.
C11_PruningNeverRaises ==
    [][ /\ C11_MissingComponent(stack', world')
            => (Top'.related_entities = <<>> /\ pc' = "running")
        /\ C11_StaleCandidate
            => /\ pc' = "running"
               /\ stack' = [stack EXCEPT ![Len(stack)].target = @ + 1]
               /\ partial_match' = partial_match
               /\ results' = results ]_vars

\* at depth two of the traversal a candidate that is not live was skipped
C11_Witness ==
    /\ pc = "running"
    /\ Len(stack) = 2
    /\ Top.entered
    /\ Top.target = 2
    /\ Top.related_entities[1] \notin DOMAIN world

\* C12: add_relationship(source, target, component, accessor) fails with an
\* unknown-term error whenever the source index or the target index is not
\* the index of an existing term, leaving the plan as it was, and appends
\* one edge only when both indices exist.
C12_AddRelationshipValidatesIndices ==
    [][ call'.op = "add_relationship"
            => IF call'.source < Len(plan.terms) /\ call'.target < Len(plan.terms)
               THEN /\ call'.ret = "Ok"
                    /\ Len(plan'.relationships) = Len(plan.relationships) + 1
               ELSE /\ call'.ret # "Ok"
                    /\ plan' = plan ]_vars

\* C13: build(main_index) fails with an unknown-term error when main_index
\* is not the index of an existing term (also when no term was added), and
\* otherwise returns a plan whose main_term_index is main_index.
C13_BuildValidatesMainIndex ==
    call.op = "build"
        => IF call.main_term_index < Len(plan.terms)
           THEN call.ret = "Ok" /\ plan.main_term_index = call.main_term_index
           ELSE call.ret # "Ok"

\* C14 (plan well-formedness): every plan reachable through QueryPlan::new
\* and any sequence of add_term / add_relationship / build has its main
\* term and the source and target term of every edge among its terms.
C14_PlanWellFormed ==
    /\ plan.main_term_index < Len(plan.terms)
    /\ \A r \in 1..Len(plan.relationships) :
           /\ plan.relationships[r].source_term < Len(plan.terms)
           /\ plan.relationships[r].target_term < Len(plan.terms)

\* a declared access covers an access: every component the access reads or
\* writes is declared with at least that mode
C17_Covers(declared, access) ==
    /\ access.reads \subseteq declared.reads \cup declared.writes
           \/ declared.read_all
    /\ access.writes \subseteq declared.writes
    /\ access.read_all => declared.read_all

\* C17 (P6 combined-access-covers): combined_access(plan) covers the access
\* of every term; and the access Dynamic declares through
\* update_component_access together with those it adds through
\* init_nested_access cover the access of every term.
C17_CombinedAccessCovers ==
    /\ call.op = "combined_access"
           => \A i \in 1..Len(plan.terms) : C17_Covers(call.ret, plan.terms[i].access)
    /\ call.op = "init_nested_access"
           => \A i \in 1..Len(plan.terms) :
                  \/ C17_Covers(call.access, plan.terms[i].access)
                  \/ \E declared \in call.component_access_set :
                         C17_Covers(declared, plan.terms[i].access)

\* the accesses of a plan of MaxTerms terms, the first writing A, were
\* declared through Dynamic
C17_Witness ==
    /\ call.op = "init_nested_access"
    /\ Len(plan.terms) = MaxTerms
    /\ plan.terms[1].access.writes = {"A"}
    /\ plan.main_term_index = 1

\* C18: related_to<R>(src, tgt) between existing terms appends the edge
\* (src, tgt, R) whose accessor is the relationship accessor registered for
\* R, not a fixed offset.
C18_RelatedToUsesRegisteredAccessor ==
    [][ (/\ call'.op = "related_to"
         /\ call'.source < Len(plan.terms)
         /\ call'.target < Len(plan.terms))
            => plan'.relationships =
                   Append(plan.relationships,
                          [source_term |-> call'.source,
                           target_term |-> call'.target,
                           relationship_component |-> call'.R,
                           accessor |-> RelationshipAccessor(call'.R)]) ]_vars

\* C15: a term whose access is unbounded (read_all) matches any live
\* entity: as the main term of a one-term plan it yields the one-slot tuple
\* of the main entity, and as the target term of the edge ChildOf 0 -> 1 it
\* yields the tuple (main entity, its parent).
C15_UnboundedTermMatchesAnyLiveEntity ==
    pc = "done" =>
        /\ (/\ Len(plan.terms) = 1
            /\ plan.terms[1].access = read_all(matches_everything))
               => results = << <<main_entity>> >>
        /\ (/\ Len(plan.terms) = 2
            /\ plan.terms[1].access = with("A")
            /\ plan.terms[2].access = read_all(matches_everything)
            /\ {"A", "ChildOf"} \subseteq DOMAIN world[main_entity])
               => results = << <<main_entity, world[main_entity]["ChildOf"][1]>> >>

\* C16: a without-constraint is honoured.  For the plan whose term 0
\* requires A and forbids C (main = 0), an entity holding A and C yields no
\* tuple and an entity holding A but not C yields the one-slot tuple of it;
\* and when the target term of the edge ChildOf 0 -> 1 forbids C, a parent
\* holding C yields no tuple.
C16_WithoutIsHonoured ==
    pc = "done" =>
        /\ (/\ Len(plan.terms) = 1
            /\ plan.terms[1].access = and_without(with("A"), "C"))
               => results = IF "A" \in DOMAIN world[main_entity]
                               /\ "C" \notin DOMAIN world[main_entity]
                            THEN << <<main_entity>> >>
                            ELSE <<>>
        /\ (/\ Len(plan.terms) = 2
            /\ plan.terms[1].access = with("A")
            /\ plan.terms[2].access = and_without(matches_everything, "C")
            /\ {"A", "ChildOf"} \subseteq DOMAIN world[main_entity]
            /\ "C" \in DOMAIN world[world[main_entity]["ChildOf"][1]])
               => results = <<>>

\* whether a view lets its holder write the component
C19_WritePermitted(view, T) ==
    view.kind = "FilteredEntityMut" /\ T \in view.access.writes

\* C19: through the view built for the matched entity of term i, a
\* component is read only if the access of term i includes it, and a
\* component may be written if and only if the access of term i contains
\* write on it (a with_mut::<T> term permits writing T, a with::<T> term
\* does not).
C19_ViewRestrictedToTermAccess ==
    /\ (call.op = "get" /\ call.ret = "Some")
           => has_component_read(plan.terms[call.term_index + 1].access, call.T)
    /\ call.op = "entity_ref"
           => \A T \in {"A", "C"} :
                  C19_WritePermitted(call.ret, T)
                      <=> T \in plan.terms[call.term_index + 1].access.writes

C29_Initial ==
    [i \in 1..Len(plan.terms) |->
        IF i = plan.main_term_index + 1 THEN main_entity ELSE None]

RECURSIVE C29_CalledWith(_)
\* the partial assignment the active call at depth d was called with: that
\* of its caller, with the target slot of the caller's current relationship
\* bound to the caller's current candidate
C29_CalledWith(d) ==
    IF d = 1
    THEN C29_Initial
    ELSE LET caller == stack[d - 1]
         IN  [C29_CalledWith(d - 1) EXCEPT
                  ![caller.outgoing[caller.relationship].target_term + 1] =
                      caller.related_entities[caller.target]]

\* C29 (backtracking restores state): whenever control is in a call of
\* resolve_term, between its candidates and sibling edges as well, the
\* partial assignment is the one the call was called with, so every callee
\* returned it as it found it; and when execute returns the assignment is
\* again the initial one: only the result list has grown.
C29_BacktrackingRestores ==
    /\ (pc = "running" /\ stack # <<>>) => partial_match = C29_CalledWith(Len(stack))
    /\ pc = "done" => partial_match = C29_Initial

\* a call at depth two has returned to its caller, which is past its first
\* candidate
C29_Witness ==
    /\ pc = "running"
    /\ Len(stack) = 1
    /\ Top.entered
    /\ Top.target = 2
    /\ matches(Term(Top.outgoing[Top.relationship].target_term),
               Top.related_entities[1], world)
    /\ partial_match[Top.outgoing[Top.relationship].target_term + 1]
           # Top.related_entities[1]

RECURSIVE C28_ReachableFrom(_, _)
\* the term indices reachable from those of `seen` along the plan's edges
C28_ReachableFrom(seen, n) ==
    IF n = 0
    THEN seen
    ELSE C28_ReachableFrom(
             seen \cup { plan.relationships[r].target_term :
                            r \in { q \in 1..Len(plan.relationships) :
                                        plan.relationships[q].source_term \in seen } },
             n - 1)

\* the main term and the terms of every edge exist, and some term is not
\* reachable from the main term
C28_HasUnreachableTerm ==
    /\ plan.main_term_index < Len(plan.terms)
    /\ \A r \in 1..Len(plan.relationships) :
           /\ plan.relationships[r].source_term < Len(plan.terms)
           /\ plan.relationships[r].target_term < Len(plan.terms)
    /\ \E i \in 0..(Len(plan.terms) - 1) :
           i \notin C28_ReachableFrom({plan.main_term_index}, Len(plan.terms))

\* C28: a tuple is emitted only with every slot bound: every returned tuple
\* has exactly |terms| entries, each an entity; and a plan with a term that
\* is not reachable from the main term yields no tuple and no error.
C28_EmitsOnlyCompleteTuples ==
    /\ \A i \in 1..Len(results) :
           /\ Len(results[i]) = Len(plan.terms)
           /\ \A j \in 1..Len(results[i]) : results[i][j] # None
    /\ C28_HasUnreachableTerm => (results = <<>> /\ pc \notin {"panic", "overflow"})

\* execute returned for a three-term plan with the one edge 0 -> 1, run on
\* an entity whose parent is live: the leaf term 1 was reached with slot 2
\* unbound
C28_Witness ==
    /\ pc = "done"
    /\ Len(plan.terms) = 3
    /\ Len(plan.relationships) = 1
    /\ \A j \in 1..3 : plan.terms[j].access = matches_everything
    /\ main_entity \in DOMAIN world
    /\ "ChildOf" \in DOMAIN world[main_entity]
    /\ world[main_entity]["ChildOf"][1] \in DOMAIN world
    /\ results = <<>>

\* the candidates of an edge for a source entity, in the order the
\* accessor yields them, repetitions kept
C27_Candidates(edge, source) ==
    IF source \in DOMAIN world /\ edge.relationship_component \in DOMAIN world[source]
    THEN IF edge.accessor.kind = "Relationship"
         THEN <<world[source][edge.relationship_component][edge.accessor.entity_field_offset + 1]>>
         ELSE world[source][edge.relationship_component]
    ELSE <<>>

\* the edges leaving a term, in the order they were added to the plan
C27_Outgoing(term_index) ==
    SelectSeq(plan.relationships, LAMBDA r : r.source_term = term_index)

RECURSIVE C27_Visit(_, _)
RECURSIVE C27_VisitEdges(_, _, _)
RECURSIVE C27_VisitCandidates(_, _, _, _)
\* the tuples a depth-first visit of the term emits, in order
C27_Visit(term_index, pm) ==
    IF C27_Outgoing(term_index) = <<>>
    THEN IF \A i \in 1..Len(pm) : pm[i] # None THEN <<pm>> ELSE <<>>
    ELSE C27_VisitEdges(term_index, pm, C27_Outgoing(term_index))

\* edge after edge
C27_VisitEdges(term_index, pm, edges) ==
    IF edges = <<>>
    THEN <<>>
    ELSE C27_VisitCandidates(term_index, pm, Head(edges),
                             C27_Candidates(Head(edges), pm[term_index + 1]))
             \o C27_VisitEdges(term_index, pm, Tail(edges))

\* candidate after candidate of one edge
C27_VisitCandidates(term_index, pm, edge, candidates) ==
    IF candidates = <<>>
    THEN <<>>
    ELSE (IF matches(plan.terms[edge.target_term + 1], Head(candidates), world)
          THEN C27_Visit(edge.target_term,
                         [i \in 1..Len(pm) |->
                             IF i = edge.target_term + 1 THEN Head(candidates) ELSE pm[i]])
          ELSE <<>>)
             \o C27_VisitCandidates(term_index, pm, edge, Tail(candidates))

\* C27 (result order): the tuples execute returns are those of a
\* depth-first visit from the main term, in its order: the outgoing edges
\* of a term in the order they were added, the candidates of an edge in
\* the accessor's iteration order, a candidate yielded k times visited k
\* times.
C27_ResultOrder ==
    pc = "done"
        => results = IF matches(Term(plan.main_term_index), main_entity, world)
                     THEN C27_Visit(plan.main_term_index, C29_Initial)
                     ELSE <<>>

\* a relationship-target collection yielded the same candidate twice and
\* two equal tuples were returned
C27_Witness ==
    /\ pc = "done"
    /\ Len(results) = 2
    /\ results[1] = results[2]

\* every dead reference the mapper has handed out
C25_DeadReferences == { mapper.map[e] : e \in DOMAIN mapper.map }

\* C25: get_or_reserve is stable: called with a source entity that is
\* already in the map it returns the target it returned before and changes
\* neither the map nor the generations counter, and every dead reference
\* carries the index of the base entity.
C25_GetOrReserveStable ==
    [][ pc = "mapping" /\ call'.op = "get_or_reserve" =>
          /\ call'.entity \in DOMAIN mapper.map =>
                 /\ call'.ret = mapper.map[call'.entity]
                 /\ mapper'.map = mapper.map
                 /\ mapper'.generations = mapper.generations
          /\ \A r \in { mapper'.map[e] : e \in DOMAIN mapper'.map } :
                 r.index = mapper'.dead_start.index ]_vars

\* a second call on a mapped source, with another source mapped as well
C25_Witness ==
    /\ pc = "mapping"
    /\ call.op = "get_or_reserve"
    /\ Cardinality(DOMAIN mapper.map) >= 2
    /\ call.entity < Cardinality(DOMAIN mapper.map)
    /\ call.ret = mapper.map[call.entity]

\* C26: after finish the next entity allocated reuses the index of the base
\* entity with a generation strictly greater than that of every dead
\* reference, so no dead reference equals a living entity.
C26_NextAllocationAboveDeadReferences ==
    pc = "spawned" =>
        /\ call.ret.index = mapper.dead_start.index
        /\ \A r \in C25_DeadReferences :
               /\ call.ret.generation > r.generation
               /\ call.ret # r

\* C30: the dead references of one mapper are pairwise distinct whatever
\* the sequence of calls, the wrap of the masked counter included, and the
\* number of generations reserved at finish is the number of dead
\* references created.
C30_DeadReferencesDistinct ==
    pc \in {"mapping", "finished", "spawned"} =>
        /\ \A a, b \in DOMAIN mapper.map :
               a # b => mapper.map[a] # mapper.map[b]
        /\ mapper.generations = Cardinality(DOMAIN mapper.map)

\* the filter T holds of the entity
C21_Satisfies(T, e) ==
    IF T.kind = "With" THEN T.T \in DOMAIN world[e] ELSE T.T \notin DOMAIN world[e]

\* the entities that the query of a builder matches, among those that
\* stand for the bundles
C21_Matched(b) ==
    LET state == from_builder(b)
    IN  { e \in every_bundle_entities : new_archetype(state, world, e) }

\* .or(|builder| { builder.with::<A>(); builder.with::<B>(); })
C21_OrAB ==
    QueryBuilder_or(QueryBuilder_new(EntityData),
                    filter(filter(or_builder, With("A")), With("B")))

\* .or(|builder| { with::<A>(); with::<B>(); with::<C>(); })
C21_OrABC ==
    QueryBuilder_or(QueryBuilder_new(EntityData),
                    filter(filter(filter(or_builder, With("A")), With("B")), With("C")))

\* C21: an or-group matches an entity iff the entity satisfies at least one
\* of the filters added inside the closure, together with every filter
\* added outside it: inside the closure the first filter starts the group
\* and each later one is an alternative, outside it every filter and every
\* finished group is a further condition; With<A> OR With<B> over (A,B),
\* (B), (C) matches the first two, With<A> OR With<B> OR With<C> all three.
C21_OrGroupMatchesAnyFilter ==
    [][ pc = "building" =>
          /\ call'.op = "filter" =>
                LET b == builder[Len(builder)]
                    before == C21_Matched(b)
                    after == C21_Matched(builder'[Len(builder)])
                    satisfying == { e \in every_bundle_entities :
                                       C21_Satisfies(call'.T, e) }
                IN  /\ b.or /\ ~b.first => after = before \cup satisfying
                    /\ b = or_builder => after = satisfying
                    /\ ~b.or => after = before \cap satisfying
          /\ call'.op = "or_return" /\ ~builder[Len(builder) - 1].or =>
                C21_Matched(builder'[Len(builder')])
                    = C21_Matched(builder[Len(builder) - 1])
                      \cap C21_Matched(builder[Len(builder)])
          /\ call'.op = "build" =>
                /\ builder = <<C21_OrAB>> =>
                      among(results', builder_or_entities) = <<1, 2>>
                /\ builder = <<C21_OrABC>> =>
                      among(results', builder_or_entities) = <<1, 2, 3>> ]_vars

\* With<A> OR With<B> built and iterated over (A,B), (B), (C)
C21_Witness ==
    /\ pc = "built"
    /\ call.op = "build"
    /\ builder = <<C21_OrAB>>
    /\ among(results, builder_or_entities) = <<1, 2>>

\* .or(|builder| { builder.with::<A>(); builder.without::<B>(); })
C22_OrAWithoutB ==
    QueryBuilder_or(QueryBuilder_new(EntityData),
                    filter(filter(or_builder, With("A")), Without("B")))

\* the query With<A> OR Without<B> was built and iterated over a world
\* that holds e1 = (A,B), e2 = (A), e3 = (B), the entities 4, 5, 6
C22_Scenario ==
    /\ pc = "built"
    /\ call.op = "build"
    /\ builder = <<C22_OrAWithoutB>>

\* C22 as stated: over e1 = (A,B), e2 = (A), e3 = (B) the filter
\* With<A> OR Without<B> matches e1, e2 and e3 (count = 3).
C22_OrWithoutMatchesThree ==
    C22_Scenario => among(results, or_without_entities) = <<4, 5, 6>>

\* C22 amended: over e1 = (A,B), e2 = (A), e3 = (B) the filter
\* With<A> OR Without<B> matches e1 and e2 only (count = 2): e3 holds B and
\* lacks A, so it satisfies neither alternative.
C22_OrWithoutMatchesTwo ==
    C22_Scenario => among(results, or_without_entities) = <<4, 5>>

C22_Witness ==
    /\ C22_Scenario
    /\ 6 \notin { results[i] : i \in DOMAIN results }
    /\ {4, 5} \subseteq { results[i] : i \in DOMAIN results }

\* QueryBuilder::<&Dense>::new(&mut world).with::<Sparse>()
C23_ReadDenseWithSparse == filter(QueryBuilder_new(Ref("A")), With("Sparse"))

\* C23: a builder reports itself dense only if its access is bounded and
\* every component it reads or writes and every with / without filter
\* component is registered with table storage; a query that reads a dense
\* component and requires a sparse one is not dense and matches exactly the
\* entities holding both; dynamic plans always report not dense.
C23_DenseOnlyIfAllTable ==
    pc = "built" =>
        /\ call.op = "build" =>
              /\ call.is_dense =>
                    /\ ~builder[1].access.read_all
                    /\ \A id \in builder[1].access.reads \cup builder[1].access.writes
                                 \cup with_filters(builder[1].access)
                                 \cup without_filters(builder[1].access) :
                           storage_type(id) = "Table"
              /\ builder = <<C23_ReadDenseWithSparse>> =>
                    /\ ~call.is_dense
                    /\ results = SelectSeq([e \in DOMAIN world |-> e],
                                           LAMBDA e : {"A", "Sparse"} \subseteq DOMAIN world[e])
        /\ call.op = "build_dynamic" => ~call.is_dense
        /\ ~IS_DENSE

\* the regression test: (Dense), (Dense, Sparse), reading Dense and
\* requiring Sparse
C23_Witness ==
    /\ pc = "built"
    /\ call.op = "build"
    /\ builder = <<C23_ReadDenseWithSparse>>
    /\ among(results, dense_sparse_entities) = <<8>>
    /\ ~call.is_dense

\* the storage values the statement names
C24_StatedStorageValues == {"Dense", "Sparse"}

\* the storage values the declaration surface takes
C24_StorageValues == {"Table", "SparseSet"}

\* the item is one a declaration of this kind accepts, given the storage
\* values
C24_Accepted(meta, derive, values) ==
    /\ meta.kind = "NameValue"
    /\ \/ meta.path = "change_detection" /\ meta.lit.type = "Bool"
       \/ /\ derive = "component"
          /\ meta.path = "storage"
          /\ meta.lit.type = "Str"
          /\ meta.lit.value \in values

\* the token of a rejected item that an error is reported against: the
\* value of a storage or change_detection attribute, the key of an unknown
\* attribute, the literal of a bare literal
C24_OffendingToken(meta, derive) ==
    IF meta.kind = "Lit" THEN "lit"
    ELSE IF meta.kind = "NameValue"
            /\ meta.path \in (IF derive = "component"
                              THEN {"storage", "change_detection"}
                              ELSE {"change_detection"})
    THEN "lit"
    ELSE "path"

\* what the statement says of an expanded declaration, given the storage
\* values: an implementation iff every item is accepted, otherwise no
\* implementation and an error against the offending token of the first
\* rejected item
C24_Declaration(values) ==
    pc = "expanded" =>
        LET rejected == { i \in DOMAIN ast.attrs :
                             ~C24_Accepted(ast.attrs[i], ast.derive, values) }
        IN  IF rejected = {}
            THEN call.ret.impl # "none"
            ELSE LET i == CHOOSE j \in rejected : \A k \in rejected : j <= k
                 IN  /\ call.ret.impl = "none"
                     /\ call.ret.compile_error.span =
                            <<i, C24_OffendingToken(ast.attrs[i], ast.derive)>>

\* C24 as stated: storage accepts exactly "Dense" and "Sparse"; any other
\* string value, a non-boolean change_detection value or an unknown key is
\* an error against the offending token and yields no implementation; a
\* resource declaration accepts only change_detection.
C24_StorageAcceptsDenseSparse == C24_Declaration(C24_StatedStorageValues)

\* C24 amended: storage accepts exactly the case-sensitive values "Table"
\* and "SparseSet"; any other string value ("Dense" and "Sparse" included),
\* a non-boolean change_detection value or an unknown key is an error
\* against the offending token and yields no implementation; a resource
\* declaration accepts only change_detection.
C24_StorageAcceptsTableSparseSet == C24_Declaration(C24_StorageValues)

\* a component declared with storage = "Dense" after an accepted item: the
\* error points at the value of the second item
C24_Witness ==
    /\ pc = "expanded"
    /\ ast.derive = "component"
    /\ Len(ast.attrs) = 2
    /\ ast.attrs[1] = [kind |-> "NameValue", path |-> "storage",
                       lit |-> [type |-> "Str", value |-> "SparseSet"]]
    /\ ast.attrs[2] = [kind |-> "NameValue", path |-> "storage",
                       lit |-> [type |-> "Str", value |-> "Dense"]]
    /\ call.ret.impl = "none"
    /\ call.ret.compile_error.span = <<2, "lit">>

====
